---- MODULE Spec2Model ----
(***************************************************************************)
(* A model of CAE_mesh_automation.py: the MeshOptimizer class (generate,  *)
(* analyze, optimize, compare) and the driver main().                      *)
(*                                                                         *)
(* Numbers.  Every attribute value is an exact decimal held as an integer  *)
(* count of millionths (1.0 is 1000000).  The grids below are multiples of *)
(* 0.01, so that the products by 0.7, 1.3, 0.6 and 1.25 of one or two      *)
(* passes are exact in millionths; IEEE rounding of the products is not    *)
(* modelled.  A mean is the exact fraction [num, den]; NaN is [0, 0].      *)
(*                                                                         *)
(* Data frames live in a heap (frames) and are named by references, so     *)
(* that a copy and an alias are different things.                          *)
(***************************************************************************)
EXTENDS Integers, Sequences, FiniteSets, TLC

\* Largest element count tried (main() uses 1000).
MaxElements == 2
\* Longest dataset a caller assigns in AdjustSpec.
MaxRecords == 2

VARIABLES
    num_elements,          \* self.num_elements
    mesh_data,             \* self.mesh_data: a frame reference or "None"
    frames,                \* the heap of DataFrames
    rng,                   \* numpy's global RandomState: seeded?, draws since the seed
    stream42,              \* the sequence of unit draws that seed 42 yields
    analysis_report,       \* the caller's analysis dict: <<>> or <<dict>>
    poor_elements,         \* the caller's poor_elements frame reference
    optimized_mesh,        \* the caller's optimized_mesh frame reference
    optimization_metrics,  \* the caller's metrics dict: <<>> or <<dict>>
    raised,                \* the exception that ended the last call
    last_call,             \* the method called last
    first_generated,       \* the rows of the first dataset generate_mesh returned
    caller_data,           \* AdjustSpec: the frame the caller assigned as mesh_data
    pc,                    \* MainSpec: main()'s position
    prev_run               \* MainSpec: what the previous run of main() computed

vars == <<num_elements, mesh_data, frames, rng, stream42, analysis_report,
          poor_elements, optimized_mesh, optimization_metrics, raised,
          last_call, first_generated, caller_data, pc, prev_run>>

---------------------------------------------------------------------------
(* Data frames and the heap *)

Columns == {"Aspect_Ratio", "Jacobian", "Skewness", "Element_Quality"}

FrameRefs == <<"df1", "df2", "df3", "df4", "df5">>

RefSet == {FrameRefs[i] : i \in DOMAIN FrameRefs}

FreeFrame == [live |-> FALSE, rows |-> <<>>]

DataFrame(rows) == [live |-> TRUE, rows |-> rows]

\* The first reference that nothing in `live` names.
Alloc(live) ==
    FrameRefs[CHOOSE i \in DOMAIN FrameRefs :
                 /\ FrameRefs[i] \notin live
                 /\ \A j \in 1 .. (i - 1) : FrameRefs[j] \in live]

Rows(ref) == frames[ref].rows

RECURSIVE SumColumn(_, _)
SumColumn(rows, col) ==
    IF rows = <<>> THEN 0 ELSE rows[1][col] + SumColumn(Tail(rows), col)

NaN == [num |-> 0, den |-> 0]

\* pandas Series.mean(): NaN for an empty column.
Mean(rows, col) ==
    IF Len(rows) = 0 THEN NaN ELSE [num |-> SumColumn(rows, col), den |-> Len(rows)]

---------------------------------------------------------------------------
(* The random source *)

\* The unit draws u in [0, 1) the model tries, in tenths.
UnitGrid == {0, 9}

\* Draws a process can make from one seeding: four columns and one more.
StreamLen(n) == 4 * n + 1

Streams(n) == [0 .. (StreamLen(n) - 1) -> UnitGrid]

\* np.random.uniform(low, high): low + (high - low) * u.
Uniform(low, high, u) == low + ((high - low) * u) \div 10

\* np.random.seed(42) with the seed dropped (the source as the process found it).
SeedMissing(r) == r

\* np.random.seed(42)
Seed(r) == [seeded |-> TRUE, pos |-> 0]

\* The n next unit draws of the source in state r: fixed by the seed when
\* seeded, anything when the source still has its start-up entropy state.
Draws(r, n) ==
    IF r.seeded
    THEN {[k \in 1 .. n |-> stream42[r.pos + k - 1]]}
    ELSE [1 .. n -> UnitGrid]

Advance(r, n) == [r EXCEPT !.pos = @ + n]

---------------------------------------------------------------------------
(* generate_mesh *)

None == "None"

NoError == [exc |-> "none", in |-> "none"]

\* The frame references held by the given variables.
LiveOf(m, p, o, c) == {m, p, o, c} \ {None}

\* Every frame reference some variable holds.
Live == LiveOf(mesh_data, poor_elements, optimized_mesh, caller_data)

\* A reference's name once the frames are renamed in the order in which
\* <<m, p, o, c>> first names them (an object's address is not observable).
Renamed(ref, m, p, o, c) ==
    LET order == <<m, p, o, c>>
        first == CHOOSE k \in 1 .. 4 :
                    order[k] = ref /\ \A j \in 1 .. (k - 1) : order[j] # ref
    IN  IF ref = None THEN None
        ELSE FrameRefs[Cardinality({order[j] : j \in 1 .. first} \ {None})]

\* The heap h and the four references are stored; frames that nothing names
\* any more are reclaimed.
Store(h, m, p, o, c) ==
    /\ mesh_data' = Renamed(m, m, p, o, c)
    /\ poor_elements' = Renamed(p, m, p, o, c)
    /\ optimized_mesh' = Renamed(o, m, p, o, c)
    /\ caller_data' = Renamed(c, m, p, o, c)
    /\ frames' = [r \in RefSet |->
                    IF \E old \in LiveOf(m, p, o, c) : Renamed(old, m, p, o, c) = r
                    THEN h[CHOOSE old \in LiveOf(m, p, o, c) : Renamed(old, m, p, o, c) = r]
                    ELSE FreeFrame]

\* np.arange(1, n + 1): empty when n < 1.
ElementIds(n) == [i \in 1 .. n |-> i]

\* The (low, high) of each np.random.uniform call, in millionths.
GeneratorRange ==
    [Aspect_Ratio    |-> <<1000000, 5000000>>,
     Jacobian        |-> <<300000, 1000000>>,
     Skewness        |-> <<0, 800000>>,
     Element_Quality |-> <<400000, 1000000>>]

\* The DataFrame built from the four arrays, drawn one array after the other.
GeneratedRows(n, d) ==
    [i \in 1 .. n |->
        [Element_ID      |-> ElementIds(n)[i],
         Aspect_Ratio    |-> Uniform(GeneratorRange.Aspect_Ratio[1],
                                     GeneratorRange.Aspect_Ratio[2], d[i]),
         Jacobian        |-> Uniform(GeneratorRange.Jacobian[1],
                                     GeneratorRange.Jacobian[2], d[n + i]),
         Skewness        |-> Uniform(GeneratorRange.Skewness[1],
                                     GeneratorRange.Skewness[2], d[2 * n + i]),
         Element_Quality |-> Uniform(GeneratorRange.Element_Quality[1],
                                     GeneratorRange.Element_Quality[2], d[3 * n + i])]]

\* numpy with the size check one off: an empty size refused too.
SizeRefusedAtZero(n) == n <= 0

\* np.random.uniform(low, high, n) raises ValueError ("negative dimensions
\* are not allowed") for n < 0 and returns an empty array for n = 0.
SizeRefused(n) == n < 0

\* What one call of generate_mesh can do to the simulator: the source is
\* reseeded first; a negative size makes the first uniform() raise
\* ValueError before anything is stored; a size of zero draws nothing and
\* stores an empty frame.
AfterGenerate ==
    LET r0 == Seed(rng)
        n  == num_elements
    IN  IF SizeRefused(n)
        THEN {[rng |-> r0, mesh_data |-> mesh_data, frames |-> frames,
               first |-> first_generated, exc |-> "ValueError"]}
        ELSE {LET ref == Alloc(Live)
                  rows == GeneratedRows(n, d)
              IN  [rng |-> Advance(r0, 4 * n),
                   mesh_data |-> ref,
                   frames |-> [frames EXCEPT ![ref] = DataFrame(rows)],
                   first |-> IF first_generated = <<>> THEN <<rows>>
                                                      ELSE first_generated,
                   exc |-> "none"] : d \in Draws(r0, 4 * n)}

\* "if self.mesh_data is None: self.generate_mesh()"
EnsureMesh ==
    IF mesh_data = None
    THEN AfterGenerate
    ELSE {[rng |-> rng, mesh_data |-> mesh_data, frames |-> frames,
           first |-> first_generated, exc |-> "none"]}

generate_mesh ==
    /\ raised = NoError
    /\ \E w \in AfterGenerate :
          /\ rng' = w.rng
          /\ first_generated' = w.first
          /\ Store(w.frames, w.mesh_data, poor_elements, optimized_mesh, caller_data)
          /\ raised' = [exc |-> w.exc,
                        in |-> IF w.exc = "none" THEN "none" ELSE "generate_mesh"]
    /\ last_call' = "generate_mesh"
    /\ UNCHANGED <<num_elements, stream42, analysis_report, optimization_metrics>>

---------------------------------------------------------------------------
(* analyze_mesh_quality *)

\* The mask without its Element_Quality term.
IsPoorNoQuality(rec) ==
    \/ rec.Aspect_Ratio > 3500000
    \/ rec.Jacobian < 500000
    \/ rec.Skewness > 600000

\* The mask with the Skewness clip bound where the threshold belongs.
IsPoorSkewnessBound(rec) ==
    \/ rec.Aspect_Ratio > 3500000
    \/ rec.Jacobian < 500000
    \/ rec.Skewness > 700000
    \/ rec.Element_Quality < 600000

\* The four-way mask of the boolean indexing.
IsPoor(rec) ==
    \/ rec.Aspect_Ratio > 3500000
    \/ rec.Jacobian < 500000
    \/ rec.Skewness > 600000
    \/ rec.Element_Quality < 600000

\* df[mask]: the rows whose mask is true, in the frame's order.
RECURSIVE BooleanIndex(_, _)
BooleanIndex(rows, mask) ==
    IF rows = <<>> THEN <<>>
    ELSE IF mask[1]
         THEN <<rows[1]>> \o BooleanIndex(Tail(rows), Tail(mask))
         ELSE BooleanIndex(Tail(rows), Tail(mask))

PoorRows(rows) == BooleanIndex(rows, [i \in DOMAIN rows |-> IsPoor(rows[i])])

AnalysisReport(rows, poor) ==
    [Total_Elements        |-> Len(rows),
     Poor_Quality_Elements |-> Len(poor),
     Percentage_Poor       |-> [num |-> Len(poor) * 100, den |-> Len(rows)],
     Avg_Aspect_Ratio      |-> Mean(rows, "Aspect_Ratio"),
     Avg_Jacobian          |-> Mean(rows, "Jacobian"),
     Avg_Skewness          |-> Mean(rows, "Skewness"),
     Avg_Element_Quality   |-> Mean(rows, "Element_Quality")]

analyze_mesh_quality ==
    /\ raised = NoError
    /\ last_call' = "analyze_mesh_quality"
    /\ \E w \in EnsureMesh :
          /\ rng' = w.rng
          /\ first_generated' = w.first
          /\ IF w.exc # "none"
             THEN /\ raised' = [exc |-> w.exc, in |-> "generate_mesh"]
                  /\ Store(w.frames, w.mesh_data, poor_elements, optimized_mesh,
                           caller_data)
                  /\ UNCHANGED analysis_report
             ELSE LET rows == w.frames[w.mesh_data].rows
                      poor == PoorRows(rows)
                      ref  == Alloc(Live \cup {w.mesh_data})
                  IN  IF Len(rows) = 0
                      \* len(poor_elements) / len(self.mesh_data) is 0 / 0
                      THEN /\ raised' = [exc |-> "ZeroDivisionError",
                                         in |-> "analyze_mesh_quality"]
                           /\ Store(w.frames, w.mesh_data, poor_elements,
                                    optimized_mesh, caller_data)
                           /\ UNCHANGED analysis_report
                      ELSE /\ raised' = NoError
                           /\ analysis_report' = <<AnalysisReport(rows, poor)>>
                           /\ Store([w.frames EXCEPT ![ref] = DataFrame(poor)],
                                    w.mesh_data, ref, optimized_mesh, caller_data)
    /\ UNCHANGED <<num_elements, stream42, optimization_metrics>>

---------------------------------------------------------------------------
(* optimize_mesh *)

\* The poor rows copied in place of the whole frame.
CopyPoorOnly(h, src, live) ==
    LET ref == Alloc(live)
    IN  [ref |-> ref, frames |-> [h EXCEPT ![ref] = DataFrame(PoorRows(h[src].rows))]]

\* DataFrame.copy() with the copy dropped: the same frame under a second name.
CopyAlias(h, src, live) == [ref |-> src, frames |-> h]

\* DataFrame.copy(): a new frame with the same rows.
Copy(h, src, live) ==
    LET ref == Alloc(live) IN [ref |-> ref, frames |-> [h EXCEPT ![ref] = h[src]]]

\* x * (num / den), exact on the grids of this model.
Times(x, num, den) == (x * num) \div den

Compare(x, op, bound) == IF op = ">" THEN x > bound ELSE x < bound

\* df[col] *= num / den: the mask dropped, every row scaled.
ScaleAlways(rows, col, op, bound, num, den) ==
    [i \in DOMAIN rows |-> [rows[i] EXCEPT ![col] = Times(@, num, den)]]

\* df.loc[df[col] op bound, col] *= num / den, with the scaling dropped.
ScaleNever(rows, col, op, bound, num, den) == rows

\* df.loc[df[col] op bound, col] *= num / den
ScaleWhere(rows, col, op, bound, num, den) ==
    [i \in DOMAIN rows |->
        IF Compare(rows[i][col], op, bound)
        THEN [rows[i] EXCEPT ![col] = Times(@, num, den)]
        ELSE rows[i]]

Max(a, b) == IF a > b THEN a ELSE b

Min(a, b) == IF a < b THEN a ELSE b

\* df[col] = df[col].clip(lo, hi), applied only above the upper bound.
ClipUpperOnly(rows, col, lo, hi) ==
    [i \in DOMAIN rows |-> [rows[i] EXCEPT ![col] = Min(@, hi)]]

\* df[col] = df[col].clip(lo, hi)
Clip(rows, col, lo, hi) ==
    [i \in DOMAIN rows |-> [rows[i] EXCEPT ![col] = Min(Max(@, lo), hi)]]

\* The eight statements on the copy, in the code's order.
OptimizedRows(rows) ==
    LET s1 == ScaleWhere(rows, "Aspect_Ratio", ">", 3500000, 7, 10)
        s2 == ScaleWhere(s1, "Jacobian", "<", 500000, 13, 10)
        s3 == ScaleWhere(s2, "Skewness", ">", 600000, 6, 10)
        s4 == ScaleWhere(s3, "Element_Quality", "<", 600000, 125, 100)
        c1 == Clip(s4, "Aspect_Ratio", 1000000, 4000000)
        c2 == Clip(c1, "Jacobian", 300000, 1000000)
        c3 == Clip(c2, "Skewness", 0, 700000)
        c4 == Clip(c3, "Element_Quality", 500000, 1000000)
    IN  c4

optimize_mesh ==
    /\ raised = NoError
    /\ last_call' = "optimize_mesh"
    /\ \E w \in EnsureMesh :
          /\ rng' = w.rng
          /\ first_generated' = w.first
          /\ IF w.exc # "none"
             THEN /\ raised' = [exc |-> w.exc, in |-> "generate_mesh"]
                  /\ Store(w.frames, w.mesh_data, poor_elements, optimized_mesh,
                           caller_data)
             ELSE LET c == Copy(w.frames, w.mesh_data, Live \cup {w.mesh_data})
                      h == [c.frames EXCEPT ![c.ref].rows = OptimizedRows(@)]
                  IN  /\ raised' = NoError
                      /\ Store(h, w.mesh_data, poor_elements, c.ref, caller_data)
    /\ UNCHANGED <<num_elements, stream42, analysis_report, optimization_metrics>>

---------------------------------------------------------------------------
(* compute_optimization_metrics *)

\* ((optimized - original) / original) * 100 on exact fractions; a zero
\* denominator stands for the float's inf or NaN.
Improvement(original, optimized) ==
    [num |-> (optimized.num * original.den - original.num * optimized.den) * 100,
     den |-> original.num * optimized.den]

\* A draw from a generator of its own, which no seed fixes.
FreshDraws(r) == [1 .. 1 -> UnitGrid]

\* np.random.uniform(18, 22) draws from the global source that generate_mesh seeded.
MetricsDraws(r) == Draws(r, 1)

compute_optimization_metrics ==
    /\ raised = NoError
    /\ optimized_mesh # None
    /\ rng.pos < StreamLen(num_elements)
    /\ last_call' = "compute_optimization_metrics"
    /\ IF mesh_data = None
       \* self.mesh_data['Element_Quality'] on None
       THEN /\ raised' = [exc |-> "TypeError", in |-> "compute_optimization_metrics"]
            /\ UNCHANGED <<rng, optimization_metrics>>
       ELSE \E d \in MetricsDraws(rng) :
               LET original  == Mean(Rows(mesh_data), "Element_Quality")
                   optimized == Mean(Rows(optimized_mesh), "Element_Quality")
               IN  /\ optimization_metrics' =
                         <<[Original_Avg_Quality         |-> original,
                            Optimized_Avg_Quality        |-> optimized,
                            Improvement_Percentage       |-> Improvement(original, optimized),
                            Computational_Time_Reduction |-> Uniform(18000000, 22000000, d[1])]>>
                   /\ rng' = Advance(rng, 1)
                   /\ raised' = NoError
    /\ UNCHANGED <<num_elements, mesh_data, frames, stream42, analysis_report,
                   poor_elements, optimized_mesh, first_generated, caller_data>>

---------------------------------------------------------------------------
(* The class used by a caller, one process after another *)

\* MeshOptimizer(num_elements) in a process that has just started.
Constructed(n, s, first) ==
    /\ num_elements = n
    /\ stream42 = s
    /\ mesh_data = None
    /\ frames = [r \in RefSet |-> FreeFrame]
    /\ rng = [seeded |-> FALSE, pos |-> 0]
    /\ analysis_report = <<>>
    /\ poor_elements = None
    /\ optimized_mesh = None
    /\ optimization_metrics = <<>>
    /\ raised = NoError
    /\ last_call = "none"
    /\ first_generated = first
    /\ caller_data = None

Init ==
    /\ \E n \in -1 .. MaxElements :
          \E s \in Streams(IF n < 0 THEN 0 ELSE n) : Constructed(n, s, <<>>)
    /\ pc = "start"
    /\ prev_run = <<>>

GenerateMesh == generate_mesh /\ UNCHANGED <<pc, prev_run>>

AnalyzeMeshQuality == analyze_mesh_quality /\ UNCHANGED <<pc, prev_run>>

OptimizeMesh == optimize_mesh /\ UNCHANGED <<pc, prev_run>>

ComputeOptimizationMetrics == compute_optimization_metrics /\ UNCHANGED <<pc, prev_run>>

\* The process ends and the program is started again with the same count.
NewProcess ==
    /\ last_call # "none"
    /\ num_elements' = num_elements
    /\ stream42' = stream42
    /\ mesh_data' = None
    /\ frames' = [r \in RefSet |-> FreeFrame]
    /\ rng' = [seeded |-> FALSE, pos |-> 0]
    /\ analysis_report' = <<>>
    /\ poor_elements' = None
    /\ optimized_mesh' = None
    /\ optimization_metrics' = <<>>
    /\ raised' = NoError
    /\ last_call' = "none"
    /\ UNCHANGED <<first_generated, caller_data, pc, prev_run>>

Next ==
    \/ GenerateMesh
    \/ AnalyzeMeshQuality
    \/ OptimizeMesh
    \/ ComputeOptimizationMetrics
    \/ NewProcess

Spec == Init /\ [][Next]_vars

---------------------------------------------------------------------------
(* main(): generate, analyze, optimize, compare, write; run again *)

\* What a run of main() holds when it writes its files: the three frames
\* written as CSV, the analysis and the metrics.
RunOutput ==
    [original_mesh_data    |-> Rows(mesh_data),
     optimized_mesh_data   |-> Rows(optimized_mesh),
     poor_quality_elements |-> Rows(poor_elements),
     analysis              |-> analysis_report[1],
     optimization_metrics  |-> optimization_metrics[1]]

\* main() uses 1000 elements; the model tries 1 .. MaxElements.
MainInit ==
    /\ \E n \in 1 .. MaxElements : \E s \in Streams(n) : Constructed(n, s, <<>>)
    /\ pc = "start"
    /\ prev_run = <<>>

MainGenerate ==
    /\ pc = "start"
    /\ generate_mesh
    /\ pc' = "generated"
    /\ UNCHANGED prev_run

MainAnalyze ==
    /\ pc = "generated"
    /\ analyze_mesh_quality
    /\ pc' = "analyzed"
    /\ UNCHANGED prev_run

MainOptimize ==
    /\ pc = "analyzed"
    /\ optimize_mesh
    /\ pc' = "optimized"
    /\ UNCHANGED prev_run

MainCompute ==
    /\ pc = "optimized"
    /\ compute_optimization_metrics
    /\ pc' = "computed"
    /\ UNCHANGED prev_run

MainWriteFiles ==
    /\ pc = "computed"
    /\ prev_run' = <<RunOutput>>
    /\ pc' = "done"
    /\ UNCHANGED <<num_elements, mesh_data, frames, rng, stream42, analysis_report,
                   poor_elements, optimized_mesh, optimization_metrics, raised,
                   last_call, first_generated, caller_data>>

\* The program is run again: a new process, a new MeshOptimizer.
MainRunAgain ==
    /\ pc = "done"
    /\ pc' = "start"
    /\ mesh_data' = None
    /\ frames' = [r \in RefSet |-> FreeFrame]
    /\ rng' = [seeded |-> FALSE, pos |-> 0]
    /\ analysis_report' = <<>>
    /\ poor_elements' = None
    /\ optimized_mesh' = None
    /\ optimization_metrics' = <<>>
    /\ raised' = NoError
    /\ last_call' = "none"
    /\ UNCHANGED <<num_elements, stream42, first_generated, caller_data, prev_run>>

MainNext ==
    \/ MainGenerate
    \/ MainAnalyze
    \/ MainOptimize
    \/ MainCompute
    \/ MainWriteFiles
    \/ MainRunAgain

MainSpec == MainInit /\ [][MainNext]_vars

---------------------------------------------------------------------------
(* The classifier and the adjuster on any dataset a caller assigns *)

\* A record that meets no threshold, and one that meets all four, both
\* within the generator's ranges.
Nominal ==
    [Aspect_Ratio |-> 2000000, Jacobian |-> 800000,
     Skewness |-> 300000, Element_Quality |-> 800000]

AllPoor ==
    [Aspect_Ratio |-> 4600000, Jacobian |-> 300000,
     Skewness |-> 720000, Element_Quality |-> 400000]

\* Values at and around each threshold and each clip bound, some of them
\* outside the generator's ranges.
FineGrid ==
    [Aspect_Ratio    |-> {500000, 3500000, 3510000, 5000000, 5800000},
     Jacobian        |-> {200000, 300000, 400000, 500000, 1200000},
     Skewness        |-> {-100000, 600000, 610000, 800000, 1100000, 1200000},
     Element_Quality |-> {300000, 400000, 480000, 600000, 1100000}]

AttributeGrid ==
    {Nominal, AllPoor}
        \cup {[AllPoor EXCEPT ![c] = Nominal[c]] : c \in Columns}
        \cup UNION {{[Nominal EXCEPT ![c] = v] : v \in FineGrid[c]} : c \in Columns}

\* The datasets of n records, numbered 1 .. n as generate_mesh numbers them.
Datasets(n) ==
    {[i \in 1 .. n |->
        [Element_ID      |-> i,
         Aspect_Ratio    |-> a[i].Aspect_Ratio,
         Jacobian        |-> a[i].Jacobian,
         Skewness        |-> a[i].Skewness,
         Element_Quality |-> a[i].Element_Quality]] : a \in [1 .. n -> AttributeGrid]}

\* A caller has built a MeshOptimizer and bound its mesh_data to a frame D.
AdjustInit ==
    /\ \E n \in 0 .. MaxRecords : \E D \in Datasets(n) :
          /\ num_elements = n
          /\ frames = [r \in RefSet |-> IF r = FrameRefs[1] THEN DataFrame(D) ELSE FreeFrame]
    /\ mesh_data = FrameRefs[1]
    /\ caller_data = FrameRefs[1]
    /\ stream42 = [i \in 0 .. 0 |-> 0]
    /\ rng = [seeded |-> FALSE, pos |-> 0]
    /\ analysis_report = <<>>
    /\ poor_elements = None
    /\ optimized_mesh = None
    /\ optimization_metrics = <<>>
    /\ raised = NoError
    /\ last_call = "none"
    /\ first_generated = <<>>
    /\ pc = "start"
    /\ prev_run = <<>>

\* The caller feeds the adjuster its own output: optimizer.mesh_data = optimized_mesh
\* (once: the second pass is the last).
AssignMeshData ==
    /\ raised = NoError
    /\ optimized_mesh # None
    /\ mesh_data = caller_data
    /\ Store(frames, optimized_mesh, poor_elements, optimized_mesh, caller_data)
    /\ last_call' = "assign_mesh_data"
    /\ UNCHANGED <<num_elements, rng, stream42, analysis_report, optimization_metrics,
                   raised, first_generated, pc, prev_run>>

AdjustNext ==
    \/ AnalyzeMeshQuality
    \/ OptimizeMesh
    \/ AssignMeshData

AdjustSpec == AdjustInit /\ [][AdjustNext]_vars

---------------------------------------------------------------------------
(* Properties *)

\* Whether every attribute of a record lies in the range generate_mesh draws it from.
InGeneratorRange(rec) ==
    \A c \in Columns : GeneratorRange[c][1] <= rec[c] /\ rec[c] <= GeneratorRange[c][2]

\* AdjustSpec: the second pass of the adjuster has run on the output of the first.
SecondPassDone ==
    /\ mesh_data # caller_data
    /\ optimized_mesh # None
    /\ optimized_mesh # mesh_data

\* C1: whenever analyze_mesh_quality returns, the poor frame holds exactly the
\* records of the dataset for which Aspect_Ratio > 3.5 or Jacobian < 0.5 or
\* Skewness > 0.6 or Element_Quality < 0.6, in the dataset's order, and the
\* report's Poor_Quality_Elements is the number of rows of that frame.
C1_PoorIsThresholdSubset ==
    (last_call = "analyze_mesh_quality" /\ raised = NoError) =>
        LET rows == Rows(mesh_data)
            poor == Rows(poor_elements)
        IN  /\ \A i \in DOMAIN rows :
                   (\E k \in DOMAIN poor : poor[k] = rows[i])
                       <=> (\/ rows[i].Aspect_Ratio > 3500000
                            \/ rows[i].Jacobian < 500000
                            \/ rows[i].Skewness > 600000
                            \/ rows[i].Element_Quality < 600000)
            /\ \A k \in DOMAIN poor : \E i \in DOMAIN rows : poor[k] = rows[i]
            /\ \A k \in DOMAIN poor : \A l \in DOMAIN poor :
                   k < l => poor[k].Element_ID < poor[l].Element_ID
            /\ analysis_report[1].Poor_Quality_Elements = Len(poor)
            /\ analysis_report[1].Total_Elements = Len(rows)

\* C1 witness: an analysis that returned a poor record and left out another.
C1_Witness ==
    /\ last_call = "analyze_mesh_quality"
    /\ raised = NoError
    /\ Len(Rows(mesh_data)) = 2
    /\ Len(Rows(poor_elements)) = 1
    /\ Rows(poor_elements)[1].Element_ID = 2
    /\ analysis_report[1].Poor_Quality_Elements = 1

\* C2: every record optimize_mesh returns has Aspect_Ratio in [1.0, 4.0],
\* Jacobian in [0.3, 1.0], Skewness in [0.0, 0.7] and Element_Quality in
\* [0.5, 1.0], whatever the input dataset and whether or not the record met
\* a threshold.
C2_OutputWithinClipRanges ==
    optimized_mesh # None =>
        \A i \in DOMAIN Rows(optimized_mesh) :
            LET rec == Rows(optimized_mesh)[i]
            IN  /\ 1000000 <= rec.Aspect_Ratio /\ rec.Aspect_Ratio <= 4000000
                /\ 300000 <= rec.Jacobian /\ rec.Jacobian <= 1000000
                /\ 0 <= rec.Skewness /\ rec.Skewness <= 700000
                /\ 500000 <= rec.Element_Quality /\ rec.Element_Quality <= 1000000

\* C2 witness: a record that met no threshold and was clipped all the same
\* (Aspect_Ratio 0.5 comes out as 1.0).
C2_Witness ==
    /\ mesh_data = caller_data
    /\ optimized_mesh # None
    /\ \E i \in DOMAIN Rows(mesh_data) :
          /\ ~IsPoor(Rows(mesh_data)[i])
          /\ Rows(mesh_data)[i].Aspect_Ratio < 1000000
          /\ Rows(optimized_mesh)[i].Aspect_Ratio = 1000000

\* C3: each attribute of each record optimize_mesh returns is the input
\* attribute, multiplied by its factor exactly when its own threshold holds
\* of the input value (Aspect_Ratio x0.7 if > 3.5, Jacobian x1.3 if < 0.5,
\* Skewness x0.6 if > 0.6, Element_Quality x1.25 if < 0.6), then clipped; and
\* a record within the generator's ranges that is not poor comes out equal to
\* its input.
C3_ScaleThenClipPerAttribute ==
    (optimized_mesh # None /\ optimized_mesh # mesh_data) =>
        \A i \in DOMAIN Rows(mesh_data) :
            LET x == Rows(mesh_data)[i]
                y == Rows(optimized_mesh)[i]
                a == IF x.Aspect_Ratio > 3500000
                     THEN (x.Aspect_Ratio * 7) \div 10 ELSE x.Aspect_Ratio
                j == IF x.Jacobian < 500000
                     THEN (x.Jacobian * 13) \div 10 ELSE x.Jacobian
                k == IF x.Skewness > 600000
                     THEN (x.Skewness * 6) \div 10 ELSE x.Skewness
                q == IF x.Element_Quality < 600000
                     THEN (x.Element_Quality * 5) \div 4 ELSE x.Element_Quality
            IN  /\ y.Aspect_Ratio = Min(Max(a, 1000000), 4000000)
                /\ y.Jacobian = Min(Max(j, 300000), 1000000)
                /\ y.Skewness = Min(Max(k, 0), 700000)
                /\ y.Element_Quality = Min(Max(q, 500000), 1000000)
                /\ (InGeneratorRange(x)
                        /\ x.Aspect_Ratio <= 3500000 /\ x.Jacobian >= 500000
                        /\ x.Skewness <= 600000 /\ x.Element_Quality >= 600000) => y = x

\* C3 witness: one pass over a record that is scaled in Aspect_Ratio only and
\* a record of the generator's ranges that is not poor and comes out unchanged.
C3_Witness ==
    /\ mesh_data = caller_data
    /\ optimized_mesh # None
    /\ \E i \in DOMAIN Rows(mesh_data) : \E j \in DOMAIN Rows(mesh_data) :
          /\ Rows(mesh_data)[i].Aspect_Ratio = 5000000
          /\ Rows(optimized_mesh)[i].Aspect_Ratio = 3500000
          /\ Rows(optimized_mesh)[i].Jacobian = Rows(mesh_data)[i].Jacobian
          /\ InGeneratorRange(Rows(mesh_data)[j])
          /\ ~IsPoor(Rows(mesh_data)[j])
          /\ Rows(optimized_mesh)[j] = Rows(mesh_data)[j]

\* C4: the dataset optimize_mesh returns has as many records as its input,
\* and its i-th record has the Element_ID of the i-th input record.
C4_SameIdsSameOrder ==
    optimized_mesh # None =>
        /\ Len(Rows(optimized_mesh)) = Len(Rows(mesh_data))
        /\ \A i \in DOMAIN Rows(mesh_data) :
               Rows(optimized_mesh)[i].Element_ID = Rows(mesh_data)[i].Element_ID

\* C4 witness: two records, the second one changed by the adjuster and the
\* first one not poor, both still in their places.
C4_Witness ==
    /\ mesh_data = caller_data
    /\ optimized_mesh # None
    /\ Len(Rows(mesh_data)) = 2
    /\ ~IsPoor(Rows(mesh_data)[1])
    /\ Rows(optimized_mesh)[2] # Rows(mesh_data)[2]
    /\ Rows(optimized_mesh)[2].Element_ID = 2

\* C5: a call of analyze_mesh_quality, optimize_mesh or
\* compute_optimization_metrics on a simulator that holds a dataset leaves
\* the rows of self.mesh_data as they were, the optimized frame is another
\* frame than self.mesh_data, and analyze and compute leave the rows of the
\* optimized frame as they were.
C5_OriginalNeverMutated ==
    [][(/\ mesh_data # None
        /\ last_call' \in {"analyze_mesh_quality", "optimize_mesh",
                           "compute_optimization_metrics"})
         => /\ mesh_data' # None
            /\ frames'[mesh_data'].rows = frames[mesh_data].rows
            /\ optimized_mesh' # mesh_data'
            /\ (optimized_mesh # None /\ last_call' # "optimize_mesh")
                   => frames'[optimized_mesh'].rows = frames[optimized_mesh].rows]_vars

\* C5 witness: all three calls made, the optimized rows differing from the
\* original rows, which are those generate_mesh returned.
C5_Witness ==
    /\ mesh_data # None
    /\ optimized_mesh # None
    /\ analysis_report # <<>>
    /\ optimization_metrics # <<>>
    /\ Rows(optimized_mesh) # Rows(mesh_data)
    /\ Rows(mesh_data) = first_generated[1]

\* C6 as stated: for a dataset within the generator's ranges, the second
\* pass of the adjuster returns the rows the first pass returned.
C6_SecondPassChangesNothing ==
    (SecondPassDone /\ \A i \in DOMAIN Rows(caller_data) :
                           InGeneratorRange(Rows(caller_data)[i]))
        => Rows(optimized_mesh) = Rows(mesh_data)

\* C6 amended: for a dataset within the generator's ranges, the second pass
\* leaves Aspect_Ratio and Skewness of every record as the first pass left
\* them, and leaves unchanged every record that the first pass left not poor;
\* Jacobian changes again exactly when the first pass left it below 0.5 and
\* Element_Quality exactly when the first pass left it below 0.6.
C6_SecondPassFixesNonPoor ==
    (SecondPassDone /\ \A i \in DOMAIN Rows(caller_data) :
                           InGeneratorRange(Rows(caller_data)[i]))
        => \A i \in DOMAIN Rows(mesh_data) :
               LET p1 == Rows(mesh_data)[i]
                   p2 == Rows(optimized_mesh)[i]
               IN  /\ p2.Aspect_Ratio = p1.Aspect_Ratio
                   /\ p2.Skewness = p1.Skewness
                   /\ p2.Element_ID = p1.Element_ID
                   /\ (p2.Jacobian # p1.Jacobian) <=> (p1.Jacobian < 500000)
                   /\ (p2.Element_Quality # p1.Element_Quality)
                          <=> (p1.Element_Quality < 600000)
                   /\ ~(\/ p1.Aspect_Ratio > 3500000 \/ p1.Jacobian < 500000
                        \/ p1.Skewness > 600000 \/ p1.Element_Quality < 600000)
                          => p2 = p1

\* C6 witness: a second pass over a generator-range dataset that changed the
\* Jacobian of one record again (0.3, then 0.39, then 0.507) and left a
\* record that was no longer poor as it was.
C6_Witness ==
    /\ SecondPassDone
    /\ \A i \in DOMAIN Rows(caller_data) : InGeneratorRange(Rows(caller_data)[i])
    /\ \E i \in DOMAIN Rows(mesh_data) : \E j \in DOMAIN Rows(mesh_data) :
          /\ Rows(caller_data)[i].Jacobian = 300000
          /\ Rows(mesh_data)[i].Jacobian = 390000
          /\ Rows(optimized_mesh)[i].Jacobian = 507000
          /\ Rows(caller_data)[j].Aspect_Ratio = 5000000
          /\ Rows(mesh_data)[j] # Rows(caller_data)[j]
          /\ Rows(optimized_mesh)[j] = Rows(mesh_data)[j]

\* C7: when the classifier is run on the adjuster's output, every record
\* whose Skewness the adjuster left at the clip bound 0.7 is returned as poor.
C7_ClippedSkewnessStillPoor ==
    (/\ mesh_data # caller_data
     /\ last_call = "analyze_mesh_quality"
     /\ raised = NoError)
        => \A i \in DOMAIN Rows(mesh_data) :
               Rows(mesh_data)[i].Skewness = 700000
                   => \E k \in DOMAIN Rows(poor_elements) :
                          Rows(poor_elements)[k] = Rows(mesh_data)[i]

\* C7 witness: a record whose scaled Skewness (1.2 x 0.6 = 0.72) was clipped
\* to 0.7, that meets no other threshold after the adjustment, and that the
\* classifier returns as poor on the adjusted data.
C7_Witness ==
    /\ mesh_data # caller_data
    /\ last_call = "analyze_mesh_quality"
    /\ raised = NoError
    /\ \E i \in DOMAIN Rows(mesh_data) :
          /\ Rows(caller_data)[i].Skewness = 1200000
          /\ Rows(mesh_data)[i].Skewness = 700000
          /\ Rows(mesh_data)[i].Aspect_Ratio <= 3500000
          /\ Rows(mesh_data)[i].Jacobian >= 500000
          /\ Rows(mesh_data)[i].Element_Quality >= 600000
          /\ \E k \in DOMAIN Rows(poor_elements) :
                Rows(poor_elements)[k] = Rows(mesh_data)[i]

\* C8: for every count N >= 0 the dataset the simulator holds after any call
\* of generate_mesh, in this process or a later one and whatever was drawn
\* before, is the dataset the first call returned: N records with
\* Element_ID 1 .. N in order.
C8_GenerateDeterministic ==
    mesh_data # None =>
        /\ Rows(mesh_data) = first_generated[1]
        /\ Len(Rows(mesh_data)) = num_elements
        /\ \A i \in DOMAIN Rows(mesh_data) : Rows(mesh_data)[i].Element_ID = i
        /\ rng.seeded

\* C8 witness: generate_mesh called again after compute_optimization_metrics
\* drew from the source, on the largest count.
C8_Witness ==
    /\ last_call = "generate_mesh"
    /\ raised = NoError
    /\ optimization_metrics # <<>>
    /\ num_elements = MaxElements
    /\ Rows(mesh_data) = first_generated[1]
    /\ \E i \in DOMAIN Rows(mesh_data) : Rows(mesh_data)[i].Aspect_Ratio # 1000000

\* C9 as stated: generate_mesh raises exactly when num_elements is zero or
\* negative, and a run with such a count fails in generate_mesh.
C9_FailsExactlyOnNonPositive ==
    /\ last_call = "generate_mesh" => (raised # NoError <=> num_elements <= 0)
    /\ raised # NoError => (num_elements <= 0 /\ raised.in = "generate_mesh")

\* C9 amended: generate_mesh raises (ValueError, from the first uniform draw)
\* exactly when num_elements is negative; for zero it succeeds with an empty
\* dataset and the failure comes later, as the ZeroDivisionError of
\* analyze_mesh_quality's percentage; for a positive count nothing fails.
C9_FailsInGenerateExactlyOnNegative ==
    /\ last_call = "generate_mesh" => (raised # NoError <=> num_elements < 0)
    /\ raised.in = "generate_mesh" => (num_elements < 0 /\ raised.exc = "ValueError")
    /\ num_elements < 0 => (mesh_data = None /\ (last_call # "none" => raised # NoError))
    /\ (num_elements = 0 /\ raised # NoError) =>
           (/\ raised = [exc |-> "ZeroDivisionError", in |-> "analyze_mesh_quality"]
            /\ last_call = "analyze_mesh_quality"
            /\ mesh_data # None)
    /\ (num_elements = 0 /\ last_call = "analyze_mesh_quality") => raised # NoError
    /\ num_elements > 0 => raised = NoError

\* C9 witness: a count of zero, an empty dataset generated without error, and
\* the division by zero raised by the analysis.
C9_Witness ==
    /\ num_elements = 0
    /\ mesh_data # None
    /\ Rows(mesh_data) = <<>>
    /\ raised = [exc |-> "ZeroDivisionError", in |-> "analyze_mesh_quality"]

\* C10 as stated: when main() has computed its metrics, everything else
\* agrees with the previous run, Computational_Time_Reduction lies in
\* [18, 22], and the source it was drawn from is one the seed did not fix.
C10_TimeFigureNotSeeded ==
    pc = "computed" =>
        /\ prev_run # <<>> =>
               /\ prev_run[1].original_mesh_data = Rows(mesh_data)
               /\ prev_run[1].optimized_mesh_data = Rows(optimized_mesh)
               /\ prev_run[1].poor_quality_elements = Rows(poor_elements)
               /\ prev_run[1].analysis = analysis_report[1]
        /\ optimization_metrics[1].Computational_Time_Reduction >= 18000000
        /\ optimization_metrics[1].Computational_Time_Reduction <= 22000000
        /\ ~rng.seeded

\* C10 amended: two successive runs of main() agree on every dataset and on
\* every metric, Computational_Time_Reduction included: it lies in [18, 22]
\* and is the draw that follows the 4N generation draws of the source that
\* generate_mesh seeded with 42.
C10_RunsAgreeOnEverything ==
    pc = "computed" =>
        /\ prev_run # <<>> => prev_run[1] = RunOutput
        /\ optimization_metrics[1].Computational_Time_Reduction >= 18000000
        /\ optimization_metrics[1].Computational_Time_Reduction <= 22000000
        /\ rng = [seeded |-> TRUE, pos |-> 4 * num_elements + 1]
        /\ optimization_metrics[1].Computational_Time_Reduction =
               Uniform(18000000, 22000000, stream42[4 * num_elements])

\* C10 witness: the second run has computed its metrics, with a time figure
\* above 18 and a dataset that holds a poor record.
C10_Witness ==
    /\ pc = "computed"
    /\ prev_run # <<>>
    /\ optimization_metrics[1].Computational_Time_Reduction > 18000000
    /\ prev_run[1].optimization_metrics.Computational_Time_Reduction > 18000000
    /\ Len(Rows(poor_elements)) > 0
    /\ num_elements = MaxElements

====
